---------------------------- MODULE Spec2Model ----------------------------
(***************************************************************************)
(* GurobiBackend (gurobi_backend.pyx): the adapter that relays the generic *)
(* MIP backend operations to the Gurobi C API.                             *)
(*                                                                         *)
(* The adapter's own state is the pair (model handle, obj_constant_term).  *)
(* The model behind the handle lives in the native library; it is          *)
(* modelled by what the C API documents: model changes (new columns, new   *)
(* rows, row deletions, attribute writes) are queued and take effect at    *)
(* the next GRBupdatemodel or GRBoptimize, attribute reads see the         *)
(* committed model only, a range row is stored as an equality row plus a   *)
(* slack column, GRBcopymodel clones the committed model.                  *)
(*                                                                         *)
(* Reals are modelled by small integers; an optional Python value is a     *)
(* sequence: None is << >>, the value v is << v >>.                        *)
(***************************************************************************)
EXTENDS Integers, Sequences, FiniteSets, TLC

VARIABLES p, q, last, hist, native

vars == <<p, q, last, hist, native>>

---------------------------------------------------------------------------
(* Bounds of the model.                                                    *)

\* most successful add_variable calls on an adapter
MaxVars == 2

\* most successful add_linear_constraint calls on an adapter
MaxRows == 2

\* most range rows, each with its slack column, where whole coefficient lists
\* are enumerated
MaxRanges == 1

\* most attribute writes left queued by failed calls before another call may fail
MaxQueued == 1

\* most calls made on an adapter and its copy after the copy was taken
MaxAfterCopy == 2

\* most environments allocated over the life of the program
MaxObjects == 3

---------------------------------------------------------------------------
(* Python values.                                                          *)

None == << >>

Some(v) == << v >>

\* the result of a call: the value returned, or the exception raised
Return(v) == [exc |-> "none", val |-> v]

Raise(kind, msg) == [exc |-> kind, val |-> msg]

---------------------------------------------------------------------------
(* Native constants (gurobi_c.h) the source names.                         *)

\* 1e100 in the C header; every real of the model is far below it
GRB_INFINITY == 1000

GRB_OPTIMAL == 2

GRB_INFEASIBLE == 3

GRB_INF_OR_UNBD == 4

GRB_UNBOUNDED == 5

GRB_ITERATION_LIMIT == 7

GRB_NODE_LIMIT == 8

GRB_TIME_LIMIT == 9

GRB_SOLUTION_LIMIT == 10

GRB_ERROR_INDEX_OUT_OF_RANGE == 10006

GRB_ERROR_DATA_NOT_AVAILABLE == 10005

\* the character codes of the column types and row senses
GRB_BINARY == "B"

GRB_CONTINUOUS == "C"

GRB_INTEGER == "I"

GRB_LESS_EQUAL == "<"

GRB_GREATER_EQUAL == ">"

GRB_EQUAL == "="

\* a char* that is NULL
NULL == "NULL"

---------------------------------------------------------------------------
(* The static tables.                                                      *)

errors ==
  [e \in 10001..10020 |->
     CASE e = 10001 -> "GRB_ERROR_OUT_OF_MEMORY"
       [] e = 10002 -> "GRB_ERROR_NULL_ARGUMENT"
       [] e = 10003 -> "GRB_ERROR_INVALID_ARGUMENT"
       [] e = 10004 -> "GRB_ERROR_UNKNOWN_ATTRIBUTE"
       [] e = 10005 -> "GRB_ERROR_DATA_NOT_AVAILABLE"
       [] e = 10006 -> "GRB_ERROR_INDEX_OUT_OF_RANGE"
       [] e = 10007 -> "GRB_ERROR_UNKNOWN_PARAMETER"
       [] e = 10008 -> "GRB_ERROR_VALUE_OUT_OF_RANGE"
       [] e = 10009 -> "GRB_ERROR_NO_LICENSE"
       [] e = 10010 -> "GRB_ERROR_SIZE_LIMIT_EXCEEDED"
       [] e = 10011 -> "GRB_ERROR_CALLBACK"
       [] e = 10012 -> "GRB_ERROR_FILE_READ"
       [] e = 10013 -> "GRB_ERROR_FILE_WRITE"
       [] e = 10014 -> "GRB_ERROR_NUMERIC"
       [] e = 10015 -> "GRB_ERROR_IIS_NOT_INFEASIBLE"
       [] e = 10016 -> "GRB_ERROR_NOT_FOR_MIP"
       [] e = 10017 -> "GRB_ERROR_OPTIMIZATION_IN_PROGRESS"
       [] e = 10018 -> "GRB_ERROR_DUPLICATES"
       [] e = 10019 -> "GRB_ERROR_NODEFILE"
       [] OTHER     -> "GRB_ERROR_Q_NOT_PSD"]

mip_status ==
  [s \in {GRB_INFEASIBLE, GRB_INF_OR_UNBD, GRB_UNBOUNDED, GRB_ITERATION_LIMIT,
          GRB_NODE_LIMIT, GRB_TIME_LIMIT, GRB_SOLUTION_LIMIT} |->
     CASE s = GRB_INFEASIBLE      -> "The problem is infeasible"
       [] s = GRB_INF_OR_UNBD     -> "The problem is infeasible or unbounded"
       [] s = GRB_UNBOUNDED       -> "The problem is unbounded"
       [] s = GRB_ITERATION_LIMIT -> "The iteration limit has been reached"
       [] s = GRB_NODE_LIMIT      -> "The node limit has been reached"
       [] s = GRB_TIME_LIMIT      -> "The time limit has been reached"
       [] OTHER                   -> "The solution limit has been reached"]

\* str(n) of a natural number
RECURSIVE str(_)
str(n) ==
  LET digit == [d \in 0..9 |->
                  CASE d = 0 -> "0" [] d = 1 -> "1" [] d = 2 -> "2" [] d = 3 -> "3"
                    [] d = 4 -> "4" [] d = 5 -> "5" [] d = 6 -> "6" [] d = 7 -> "7"
                    [] d = 8 -> "8" [] OTHER -> "9"]
  IN  IF n < 10 THEN digit[n] ELSE str(n \div 10) \o digit[n % 10]

\* the text GRBgeterrormsg gives for the last error of the environment
GRBgeterrormsg == "<native error text>"

\* check(env, error): a nonzero code raises; the name comes from errors[error],
\* and a dict subscript with a missing key raises KeyError
check(error) ==
  IF error = 0 THEN Return(None)
  ELSE IF error \in DOMAIN errors
       THEN Raise("MIPSolverException",
                  "Gurobi: " \o GRBgeterrormsg \o " (" \o errors[error] \o ")")
       ELSE Raise("KeyError", str(error))

---------------------------------------------------------------------------
(* The native model behind a GRBmodel handle.                              *)
(*   cols, rows      the committed columns and rows, in index order        *)
(*   pcols, prows    columns and rows added since the last update          *)
(*   pdel            committed rows marked for deletion (0-based indices)  *)
(*   pattr           attribute writes queued since the last update         *)
(*   sol             the objective value of the solution the last optimize  *)
(*                   call left, if any                                     *)
(* The Status attribute is read by solve() alone, right after GRBoptimize, *)
(* so it is the output of that call and no field of the model.             *)

\* the model GRBnewmodel creates: no columns, no rows, minimisation, no name
GRBnewmodel ==
  [cols |-> << >>, rows |-> << >>, ModelSense |-> 1, ModelName |-> NULL,
   pcols |-> << >>, prows |-> << >>, pdel |-> {}, pattr |-> << >>, sol |-> None]

NumVars(m) == Len(m.cols)

NumConstrs(m) == Len(m.rows)

\* a C-level index (0-based) as a position of a TLA+ sequence
At(s, i) == s[i + 1]

ValidIndex(s, i) == i >= 0 /\ i < Len(s)

\* the outcome of a native call: the model after it, the error code, the output
Native(m, error, out) == [model |-> m, error |-> error, out |-> out]

Indices(pairs) == {pairs[k][1] : k \in 1..Len(pairs)}

PairSet(pairs) == {pairs[k] : k \in 1..Len(pairs)}

\* the elements of a sequence at the positions not in drop, in order
RECURSIVE Keep(_, _, _)
Keep(s, drop, k) ==
  IF k > Len(s) THEN << >>
  ELSE (IF (k - 1) \in drop THEN << >> ELSE << s[k] >>) \o Keep(s, drop, k + 1)

\* a queued column without its queued entries
Column(c) == [lb |-> c.lb, ub |-> c.ub, vtype |-> c.vtype, obj |-> c.obj, name |-> c.name]

\* the entries the queued columns hold in row r; column k of pcols gets index n0 + k - 1
ColumnEntries(pcols, n0, r) ==
  UNION {{<<n0 + k - 1, e[2]>> : e \in {x \in pcols[k].entries : x[1] = r}} :
           k \in 1..Len(pcols)}

\* one queued attribute write applied to the model
ApplyAttr(m, w) ==
  CASE w[1] = "Obj"        -> [m EXCEPT !.cols[w[2] + 1].obj = w[3]]
    [] w[1] = "LB"         -> [m EXCEPT !.cols[w[2] + 1].lb = w[3]]
    [] w[1] = "UB"         -> [m EXCEPT !.cols[w[2] + 1].ub = w[3]]
    [] w[1] = "VType"      -> [m EXCEPT !.cols[w[2] + 1].vtype = w[3]]
    [] w[1] = "ModelSense" -> [m EXCEPT !.ModelSense = w[3]]
    [] OTHER               -> [m EXCEPT !.ModelName = w[3]]

RECURSIVE ApplyAttrs(_, _, _)
ApplyAttrs(m, ws, k) ==
  IF k > Len(ws) THEN m ELSE ApplyAttrs(ApplyAttr(m, ws[k]), ws, k + 1)

\* GRBupdatemodel: the queued changes take effect: the new columns and rows are
\* appended in the order they were added, the attribute writes are applied in
\* order, the marked rows are deleted and the rows after them renumbered; a model
\* that changed loses its solution
GRBupdatemodel(m) ==
  IF m.pcols = << >> /\ m.prows = << >> /\ m.pdel = {} /\ m.pattr = << >>
  THEN Native(m, 0, None)
  ELSE
    LET n0    == Len(m.cols)
        cols1 == m.cols \o [k \in 1..Len(m.pcols) |-> Column(m.pcols[k])]
        rows1 == m.rows \o m.prows
        rows2 == [r \in 1..Len(rows1) |->
                    [rows1[r] EXCEPT !.coefs = @ \cup ColumnEntries(m.pcols, n0, r - 1)]]
        m1    == [m EXCEPT !.cols = cols1, !.rows = rows2]
        m2    == ApplyAttrs(m1, m.pattr, 1)
        m3    == [m2 EXCEPT !.rows = Keep(m2.rows, m.pdel, 1),
                            !.pcols = << >>, !.prows = << >>, !.pdel = {},
                            !.pattr = << >>, !.sol = None]
    IN  Native(m3, 0, None)

\* GRBaddvar: queues a column with its entries in the rows named
GRBaddvar(m, entries, obj, lb, ub, vtype, name) ==
  IF \E r \in Indices(entries) : r < 0 \/ r >= Len(m.rows) + Len(m.prows)
  THEN Native(m, GRB_ERROR_INDEX_OUT_OF_RANGE, None)
  ELSE Native([m EXCEPT !.pcols = Append(@, [lb |-> lb, ub |-> ub, vtype |-> vtype,
                                             obj |-> obj, name |-> name,
                                             entries |-> PairSet(entries)])],
              0, None)

\* GRBaddconstr: queues a row
GRBaddconstr(m, coefs, sense, rhs, name) ==
  IF \E c \in Indices(coefs) : c < 0 \/ c >= Len(m.cols) + Len(m.pcols)
  THEN Native(m, GRB_ERROR_INDEX_OUT_OF_RANGE, None)
  ELSE Native([m EXCEPT !.prows = Append(@, [coefs |-> PairSet(coefs), sense |-> sense,
                                             rhs |-> rhs, name |-> name])],
              0, None)

\* GRBaddrangeconstr: lower <= a.x <= upper is stored as the equality row
\* a.x - s = lower with a new column s, 0 <= s <= upper - lower; the row's
\* Sense is '=' and its RHS is lower
GRBaddrangeconstr(m, coefs, lower, upper, name) ==
  IF \E c \in Indices(coefs) : c < 0 \/ c >= Len(m.cols) + Len(m.pcols)
  THEN Native(m, GRB_ERROR_INDEX_OUT_OF_RANGE, None)
  ELSE
    LET s == Len(m.cols) + Len(m.pcols)
    IN  Native([m EXCEPT
                  !.pcols = Append(@, [lb |-> 0, ub |-> upper - lower,
                                       vtype |-> GRB_CONTINUOUS, obj |-> 0,
                                       name |-> NULL, entries |-> {}]),
                  !.prows = Append(@, [coefs |-> PairSet(coefs) \cup {<<s, -1>>},
                                       sense |-> GRB_EQUAL, rhs |-> lower,
                                       name |-> name])],
               0, None)

\* GRBdelconstrs with one index: marks a committed row for deletion
GRBdelconstrs(m, i) ==
  IF ~ValidIndex(m.rows, i)
  THEN Native(m, GRB_ERROR_INDEX_OUT_OF_RANGE, None)
  ELSE Native([m EXCEPT !.pdel = @ \cup {i}], 0, None)

\* GRBset...attrelement on a column attribute: queues the write
GRBsetattrelement(m, attr, i, v) ==
  IF ~ValidIndex(m.cols, i)
  THEN Native(m, GRB_ERROR_INDEX_OUT_OF_RANGE, None)
  ELSE Native([m EXCEPT !.pattr = Append(@, <<attr, i, v>>)], 0, None)

\* GRBsetintattr / GRBsetstrattr on a model attribute: queues the write
GRBsetattr(m, attr, v) ==
  Native([m EXCEPT !.pattr = Append(@, <<attr, 0, v>>)], 0, None)

\* GRBget...attrelement on a column attribute: reads the committed model
GRBgetcolattr(m, attr, i) ==
  IF ~ValidIndex(m.cols, i)
  THEN Native(m, GRB_ERROR_INDEX_OUT_OF_RANGE, None)
  ELSE Native(m, 0, CASE attr = "Obj"   -> At(m.cols, i).obj
                      [] attr = "LB"    -> At(m.cols, i).lb
                      [] attr = "UB"    -> At(m.cols, i).ub
                      [] attr = "VType" -> At(m.cols, i).vtype
                      [] OTHER          -> At(m.cols, i).name)

\* GRBget...attrelement on a row attribute: reads the committed model
GRBgetrowattr(m, attr, i) ==
  IF ~ValidIndex(m.rows, i)
  THEN Native(m, GRB_ERROR_INDEX_OUT_OF_RANGE, None)
  ELSE Native(m, 0, CASE attr = "Sense" -> At(m.rows, i).sense
                      [] attr = "RHS"   -> At(m.rows, i).rhs
                      [] OTHER          -> At(m.rows, i).name)

\* the pairs of a set of (index, value) pairs in increasing index order
RECURSIVE SortedPairs(_)
SortedPairs(S) ==
  IF S = {} THEN << >>
  ELSE LET lo == CHOOSE x \in S : \A y \in S : x[1] <= y[1]
       IN  << lo >> \o SortedPairs(S \ {lo})

\* GRBgetconstrs for one row: its nonzeros, by column index
GRBgetconstrs(m, index) ==
  IF ~ValidIndex(m.rows, index)
  THEN Native(m, GRB_ERROR_INDEX_OUT_OF_RANGE, None)
  ELSE Native(m, 0, SortedPairs(At(m.rows, index).coefs))

\* GRBgetdblattr ObjVal: available when the last optimize left a solution
GRBgetObjVal(m) ==
  IF m.sol = None
  THEN Native(m, GRB_ERROR_DATA_NOT_AVAILABLE, None)
  ELSE Native(m, 0, m.sol[1])

\* GRBoptimize, then GRBgetintattr Status: the queued changes are processed and
\* the solver runs; it is opaque, and o is what it came to (its error code, the
\* status, the solution); a call that fails leaves the model as it was
GRBoptimize(m, o) ==
  IF o.error # 0 THEN Native(m, o.error, None)
  ELSE Native([GRBupdatemodel(m).model EXCEPT !.sol = o.sol], 0, o.status)

\* GRBcopymodel: a clone of the committed model; queued changes are not copied
GRBcopymodel(m) ==
  [m EXCEPT !.pcols = << >>, !.prows = << >>, !.pdel = {}, !.pattr = << >>]

---------------------------------------------------------------------------
(* The handles of the native library.  An environment or a model is known  *)
(* to the adapter by a pointer; here a handle is the position of the       *)
(* object in the table of the objects ever allocated, and 0 is NULL.  The  *)
(* table keeps, for every object, how many times it was freed, and for a   *)
(* model the master environment it was created in.                         *)

NULL_HANDLE == 0

NoObjects == [envs |-> << >>, models |-> << >>]

\* GRBemptyenv: o is what the library does: "ok" allocates an environment,
\* "error" allocates one and reports an error code, "null" allocates nothing
GRBemptyenv(n, o) ==
  IF o = "null" THEN [objects |-> n, error |-> 10001, out |-> NULL_HANDLE]
  ELSE [objects |-> [n EXCEPT !.envs = Append(@, [frees |-> 0])],
        error |-> IF o = "ok" THEN 0 ELSE 10001,
        out |-> Len(n.envs) + 1]

\* GRBstartenv: starts the environment (the licence is taken here) or fails
GRBstartenv(n, env, o) ==
  [objects |-> n, error |-> IF o = "ok" THEN 0 ELSE 10009, out |-> None]

\* GRBnewmodel, the handle side: a model object in the environment env, or
\* an error and a NULL handle
GRBnewmodel_handle(n, env, o) ==
  IF o # "ok" THEN [objects |-> n, error |-> 10001, out |-> NULL_HANDLE]
  ELSE [objects |-> [n EXCEPT !.models = Append(@, [env |-> env, frees |-> 0])],
        error |-> 0, out |-> Len(n.models) + 1]

\* GRBcopymodel, the handle side: a new model object in the environment of
\* the model copied
GRBcopymodel_handle(n, model) ==
  [objects |-> [n EXCEPT !.models = Append(@, [env |-> n.models[model].env,
                                               frees |-> 0])],
   error |-> 0, out |-> Len(n.models) + 1]

\* GRBfreemodel: frees the model object; a NULL handle is refused
GRBfreemodel(n, model) ==
  IF model = NULL_HANDLE THEN n
  ELSE [n EXCEPT !.models[model].frees = @ + 1]

\* GRBfreeenv: frees the environment object; a NULL handle is ignored
GRBfreeenv(n, env) ==
  IF env = NULL_HANDLE THEN n
  ELSE [n EXCEPT !.envs[env].frees = @ + 1]

---------------------------------------------------------------------------
(* GurobiBackend.  self is [model, obj_constant_term]; every method gives  *)
(* the adapter after the call and what the call returned or raised.        *)

Out(self, res) == [self |-> self, res |-> res]

Failed(res) == res.exc # "none"

\* Python truthiness of an optional number: None and 0 are false
Truthy(x) == x # None /\ x[1] # 0

\* ncols(): NumVars of the committed model
ncols(self) == NumVars(self.model)

\* nrows(): NumConstrs of the committed model
nrows(self) == NumConstrs(self.model)

\* set_sense(sense) that leaves the write queued
set_sense_without_update(self, sense) ==
  LET a  == GRBsetattr(self.model, "ModelSense", IF sense = 1 THEN -1 ELSE 1)
  IN  Out([self EXCEPT !.model = a.model], check(a.error))

\* set_sense(sense): +1 is maximisation (native -1), anything else minimisation
set_sense(self, sense) ==
  LET a  == GRBsetattr(self.model, "ModelSense", IF sense = 1 THEN -1 ELSE 1)
      c1 == check(a.error)
      u  == GRBupdatemodel(a.model)
  IN  IF Failed(c1) THEN Out([self EXCEPT !.model = a.model], c1)
      ELSE Out([self EXCEPT !.model = u.model], check(u.error))

\* __init__(maximization): a new empty model with the sense set, constant term 0
init(maximization) ==
  LET a == GRBsetattr(GRBnewmodel, "ModelSense", IF maximization THEN -1 ELSE 1)
      s == set_sense([model |-> a.model, obj_constant_term |-> 0],
                     IF maximization THEN 1 ELSE -1)
  IN  [s.self EXCEPT !.obj_constant_term = 0]

\* is_maximization()
is_maximization(self) == self.model.ModelSense = -1

\* add_variable with the kinds counted only after the column was handed to
\* the native layer
add_variable_late_check(self, a) ==
  LET count == (IF a.binary THEN 1 ELSE 0) + (IF a.continuous THEN 1 ELSE 0)
               + (IF a.integer THEN 1 ELSE 0)
      continuous == IF count = 0 THEN TRUE ELSE a.continuous
      vtype == IF a.binary THEN GRB_BINARY
               ELSE IF continuous THEN GRB_CONTINUOUS ELSE GRB_INTEGER
      c_name == IF a.name = None THEN "x_" ELSE a.name[1]
      upper_bound == IF a.upper_bound = None THEN GRB_INFINITY ELSE a.upper_bound[1]
      lower_bound == IF a.lower_bound = None THEN -GRB_INFINITY ELSE a.lower_bound[1]
      entries == IF a.coefficients = None THEN << >> ELSE a.coefficients[1]
      v  == GRBaddvar(self.model, entries, a.obj, lower_bound, upper_bound, vtype, c_name)
      c1 == check(v.error)
      u  == GRBupdatemodel(v.model)
      c2 == check(u.error)
      s2 == [self EXCEPT !.model = u.model]
  IN  IF Failed(c1) THEN Out([self EXCEPT !.model = v.model], c1)
      ELSE IF count > 1
      THEN Out([self EXCEPT !.model = v.model], Raise("ValueError",
             "Exactly one parameter of 'binary', 'integer' and 'continuous' must be 'True'."))
      ELSE IF Failed(c2) THEN Out(s2, c2)
      ELSE Out(s2, Return(ncols(s2) - 1))

\* add_variable(lower_bound, upper_bound, binary, continuous, integer, obj, name,
\* coefficients); a is the record of the arguments
add_variable(self, a) ==
  LET count == (IF a.binary THEN 1 ELSE 0) + (IF a.continuous THEN 1 ELSE 0)
               + (IF a.integer THEN 1 ELSE 0)
      continuous == IF count = 0 THEN TRUE ELSE a.continuous
      vtype == IF a.binary THEN GRB_BINARY
               ELSE IF continuous THEN GRB_CONTINUOUS ELSE GRB_INTEGER
      \* b"x_" + bytes(ncols) is "x_" followed by ncols NUL bytes: the C string "x_"
      c_name == IF a.name = None THEN "x_" ELSE a.name[1]
      upper_bound == IF a.upper_bound = None THEN GRB_INFINITY ELSE a.upper_bound[1]
      lower_bound == IF a.lower_bound = None THEN -GRB_INFINITY ELSE a.lower_bound[1]
      entries == IF a.coefficients = None THEN << >> ELSE a.coefficients[1]
      v  == GRBaddvar(self.model, entries, a.obj, lower_bound, upper_bound, vtype, c_name)
      c1 == check(v.error)
      u  == GRBupdatemodel(v.model)
      c2 == check(u.error)
      s2 == [self EXCEPT !.model = u.model]
  IN  IF count > 1
      THEN Out(self, Raise("ValueError",
             "Exactly one parameter of 'binary', 'integer' and 'continuous' must be 'True'."))
      ELSE IF Failed(c1) THEN Out([self EXCEPT !.model = v.model], c1)
      ELSE IF Failed(c2) THEN Out(s2, c2)
      ELSE Out(s2, Return(ncols(s2) - 1))

\* set_variable_type(variable, vtype): 1 integer, 0 binary, anything else continuous
set_variable_type(self, variable, vtype) ==
  LET a  == GRBsetattrelement(self.model, "VType", variable,
                              IF vtype = 1 THEN GRB_INTEGER
                              ELSE IF vtype = 0 THEN GRB_BINARY ELSE GRB_CONTINUOUS)
      c1 == check(a.error)
      u  == GRBupdatemodel(a.model)
  IN  IF Failed(c1) THEN Out([self EXCEPT !.model = a.model], c1)
      ELSE Out([self EXCEPT !.model = u.model], check(u.error))

\* objective_coefficient(variable, coeff): writes when coeff is true, reads otherwise
objective_coefficient(self, variable, coeff) ==
  IF Truthy(coeff)
  THEN LET a  == GRBsetattrelement(self.model, "Obj", variable, coeff[1])
           c1 == check(a.error)
           u  == GRBupdatemodel(a.model)
       IN  IF Failed(c1) THEN Out([self EXCEPT !.model = a.model], c1)
           ELSE Out([self EXCEPT !.model = u.model], check(u.error))
  ELSE LET g  == GRBgetcolattr(self.model, "Obj", variable)
           c1 == check(g.error)
       IN  IF Failed(c1) THEN Out(self, c1) ELSE Out(self, Return(Some(g.out)))

\* problem_name(name): writes when a name is given, reads otherwise; a NULL name reads ""
problem_name(self, name) ==
  IF name # None
  THEN LET a  == GRBsetattr(self.model, "ModelName", name[1])
           c1 == check(a.error)
           u  == GRBupdatemodel(a.model)
       IN  IF Failed(c1) THEN Out([self EXCEPT !.model = a.model], c1)
           ELSE Out([self EXCEPT !.model = u.model], check(u.error))
  ELSE Out(self, Return(Some(IF self.model.ModelName = NULL THEN ""
                             ELSE self.model.ModelName)))

\* set_objective's loop with the write skipped for a coefficient that is false
\* (the test objective_coefficient makes)
RECURSIVE set_objective_loop_truthy(_, _, _)
set_objective_loop_truthy(m, coeff, i) ==
  IF i >= Len(coeff) THEN Native(m, 0, None)
  ELSE LET a == IF At(coeff, i) # 0
                THEN GRBsetattrelement(m, "Obj", i, At(coeff, i))
                ELSE Native(m, IF ValidIndex(m.cols, i) THEN 0
                               ELSE GRB_ERROR_INDEX_OUT_OF_RANGE, None)
       IN  IF a.error # 0 THEN a ELSE set_objective_loop_truthy(a.model, coeff, i + 1)

\* the loop of set_objective from position i (0-based): one write per element,
\* left at the first write the native layer refuses
RECURSIVE set_objective_loop(_, _, _)
set_objective_loop(m, coeff, i) ==
  IF i >= Len(coeff) THEN Native(m, 0, None)
  ELSE LET a == GRBsetattrelement(m, "Obj", i, At(coeff, i))
       IN  IF a.error # 0 THEN a ELSE set_objective_loop(a.model, coeff, i + 1)

\* set_objective(coeff, d)
set_objective(self, coeff, d) ==
  LET l  == set_objective_loop(self.model, coeff, 0)
      c1 == check(l.error)
      u  == GRBupdatemodel(l.model)
      c2 == check(u.error)
  IN  IF Failed(c1) THEN Out([self EXCEPT !.model = l.model], c1)
      ELSE IF Failed(c2) THEN Out([self EXCEPT !.model = u.model], c2)
      ELSE Out([self EXCEPT !.model = u.model, !.obj_constant_term = d], Return(None))

\* remove_constraint(i): the deletion is queued; no update follows
remove_constraint(self, i) ==
  LET a == GRBdelconstrs(self.model, i)
  IN  Out([self EXCEPT !.model = a.model], check(a.error))

\* add_linear_constraint without the test of the bounds: a row with no bound
\* goes to the native layer as a <= row with an infinite right-hand side
add_linear_constraint_unchecked(self, coefficients, lower_bound, upper_bound, name) ==
  LET nm == IF name = None THEN "" ELSE name[1]
      a  == IF lower_bound = None /\ upper_bound = None
            THEN GRBaddconstr(self.model, coefficients, GRB_LESS_EQUAL, GRB_INFINITY, nm)
            ELSE IF upper_bound # None /\ lower_bound = None
            THEN GRBaddconstr(self.model, coefficients, GRB_LESS_EQUAL, upper_bound[1], nm)
            ELSE IF lower_bound # None /\ upper_bound = None
            THEN GRBaddconstr(self.model, coefficients, GRB_GREATER_EQUAL, lower_bound[1], nm)
            ELSE IF lower_bound = upper_bound
            THEN GRBaddconstr(self.model, coefficients, GRB_EQUAL, lower_bound[1], nm)
            ELSE GRBaddrangeconstr(self.model, coefficients, lower_bound[1],
                                   upper_bound[1], nm)
  IN  Out([self EXCEPT !.model = a.model], check(a.error))

\* add_linear_constraint(coefficients, lower_bound, upper_bound, name): the row
\* is queued; no update follows
add_linear_constraint(self, coefficients, lower_bound, upper_bound, name) ==
  LET nm == IF name = None THEN "" ELSE name[1]
      a  == IF upper_bound # None /\ lower_bound = None
            THEN GRBaddconstr(self.model, coefficients, GRB_LESS_EQUAL, upper_bound[1], nm)
            ELSE IF lower_bound # None /\ upper_bound = None
            THEN GRBaddconstr(self.model, coefficients, GRB_GREATER_EQUAL, lower_bound[1], nm)
            ELSE IF lower_bound = upper_bound
            THEN GRBaddconstr(self.model, coefficients, GRB_EQUAL, lower_bound[1], nm)
            ELSE GRBaddrangeconstr(self.model, coefficients, lower_bound[1],
                                   upper_bound[1], nm)
  IN  IF lower_bound = None /\ upper_bound = None
      THEN Out(self, Raise("ValueError",
                           "at least one of 'upper_bound' or 'lower_bound' must be set"))
      ELSE Out([self EXCEPT !.model = a.model], check(a.error))

\* row(index): the pair (indices, values) of the row's nonzeros
row(self, index) ==
  LET g  == GRBgetconstrs(self.model, index)
      c1 == check(g.error)
  IN  IF Failed(c1) THEN c1
      ELSE Return(<<[k \in 1..Len(g.out) |-> g.out[k][1]],
                    [k \in 1..Len(g.out) |-> g.out[k][2]]>>)

\* row_bounds(index): from the row's Sense and RHS
row_bounds(self, index) ==
  LET sense == GRBgetrowattr(self.model, "Sense", index)
      c1    == check(sense.error)
      d     == GRBgetrowattr(self.model, "RHS", index)
      c2    == check(d.error)
  IN  IF Failed(c1) THEN c1
      ELSE IF Failed(c2) THEN c2
      ELSE IF sense.out = ">" THEN Return(<<Some(d.out), None>>)
      ELSE IF sense.out = "<" THEN Return(<<None, Some(d.out)>>)
      ELSE Return(<<Some(d.out), Some(d.out)>>)

\* col_bounds(index): None for a bound at or beyond the infinity sentinel
col_bounds(self, index) ==
  LET lb == GRBgetcolattr(self.model, "LB", index)
      c1 == check(lb.error)
      ub == GRBgetcolattr(self.model, "UB", index)
      c2 == check(ub.error)
  IN  IF Failed(c1) THEN c1
      ELSE IF Failed(c2) THEN c2
      ELSE Return(<<IF lb.out <= -GRB_INFINITY THEN None ELSE Some(lb.out),
                    IF ub.out >= GRB_INFINITY THEN None ELSE Some(ub.out)>>)

\* col_name(index)
col_name(self, index) ==
  LET g  == GRBgetcolattr(self.model, "VarName", index)
      c1 == check(g.error)
  IN  IF Failed(c1) THEN c1 ELSE Return(IF g.out = NULL THEN "" ELSE g.out)

\* row_name(index)
row_name(self, index) ==
  LET g  == GRBgetrowattr(self.model, "ConstrName", index)
      c1 == check(g.error)
  IN  IF Failed(c1) THEN c1 ELSE Return(IF g.out = NULL THEN "" ELSE g.out)

\* is_variable_binary(index); the method is declared bint ... noexcept, so an
\* exception raised inside cannot leave it: it is reported and the method gives 0
is_variable_binary(self, index) ==
  LET g == GRBgetcolattr(self.model, "VType", index)
  IN  IF Failed(check(g.error)) THEN Return(FALSE) ELSE Return(g.out = GRB_BINARY)

\* is_variable_integer(index) taking every kind but the continuous one for integer
is_variable_integer_or_binary(self, index) ==
  LET g == GRBgetcolattr(self.model, "VType", index)
  IN  IF Failed(check(g.error)) THEN Return(FALSE) ELSE Return(g.out # GRB_CONTINUOUS)

\* is_variable_integer(index)
is_variable_integer(self, index) ==
  LET g == GRBgetcolattr(self.model, "VType", index)
  IN  IF Failed(check(g.error)) THEN Return(FALSE) ELSE Return(g.out = GRB_INTEGER)

\* is_variable_continuous(index)
is_variable_continuous(self, index) ==
  LET g == GRBgetcolattr(self.model, "VType", index)
  IN  IF Failed(check(g.error)) THEN Return(FALSE) ELSE Return(g.out = GRB_CONTINUOUS)

\* the value argument of the bound accessors: a Python object, of which the
\* code asks whether it is the object False, whether it is None, and its number
PyFalse == [kind |-> "bool", v |-> 0]

PyNone == [kind |-> "none", v |-> 0]

PyNum(x) == [kind |-> "num", v |-> x]

\* variable_upper_bound(index, value) with the test `value == False`, under
\* which the number 0 is taken for the default
variable_upper_bound_equal(self, index, value) ==
  IF ~(value.kind \in {"bool", "num"} /\ value.v = 0)
  THEN LET a  == GRBsetattrelement(self.model, "UB", index,
                                   IF value # PyNone THEN value.v ELSE GRB_INFINITY)
           c1 == check(a.error)
           u  == GRBupdatemodel(a.model)
       IN  IF Failed(c1) THEN Out([self EXCEPT !.model = a.model], c1)
           ELSE Out([self EXCEPT !.model = u.model], check(u.error))
  ELSE LET g  == GRBgetcolattr(self.model, "UB", index)
           c1 == check(g.error)
       IN  IF Failed(c1) THEN Out(self, c1)
           ELSE Out(self, Return(IF g.out >= GRB_INFINITY THEN None ELSE Some(g.out)))

\* variable_upper_bound(index, value): a write unless value is the object
\* False (the default); None writes the infinity sentinel
variable_upper_bound(self, index, value) ==
  IF ~(value = PyFalse)
  THEN LET a  == GRBsetattrelement(self.model, "UB", index,
                                   IF value # PyNone THEN value.v ELSE GRB_INFINITY)
           c1 == check(a.error)
           u  == GRBupdatemodel(a.model)
       IN  IF Failed(c1) THEN Out([self EXCEPT !.model = a.model], c1)
           ELSE Out([self EXCEPT !.model = u.model], check(u.error))
  ELSE LET g  == GRBgetcolattr(self.model, "UB", index)
           c1 == check(g.error)
       IN  IF Failed(c1) THEN Out(self, c1)
           ELSE Out(self, Return(IF g.out >= GRB_INFINITY THEN None ELSE Some(g.out)))

\* variable_lower_bound(index, value): the same with LB and minus infinity
variable_lower_bound(self, index, value) ==
  IF ~(value = PyFalse)
  THEN LET a  == GRBsetattrelement(self.model, "LB", index,
                                   IF value # PyNone THEN value.v ELSE -GRB_INFINITY)
           c1 == check(a.error)
           u  == GRBupdatemodel(a.model)
       IN  IF Failed(c1) THEN Out([self EXCEPT !.model = a.model], c1)
           ELSE Out([self EXCEPT !.model = u.model], check(u.error))
  ELSE LET g  == GRBgetcolattr(self.model, "LB", index)
           c1 == check(g.error)
       IN  IF Failed(c1) THEN Out(self, c1)
           ELSE Out(self, Return(IF g.out <= -GRB_INFINITY THEN None ELSE Some(g.out)))

\* solve() with the reason looked up by subscript, as check() looks up errors
solve_subscript(self, o) ==
  LET g  == GRBoptimize(self.model, o)
      c1 == check(g.error)
      s1 == [self EXCEPT !.model = g.model]
      status == g.out
  IN  IF Failed(c1) THEN Out(s1, c1)
      ELSE IF status # GRB_OPTIMAL
      THEN Out(s1, IF status \in DOMAIN mip_status
                   THEN Raise("MIPSolverException", "Gurobi: " \o mip_status[status])
                   ELSE Raise("KeyError", str(status)))
      ELSE Out(s1, Return(0))

\* solve(): one optimize call, then the status decides; o is what the solver came to
solve(self, o) ==
  LET g  == GRBoptimize(self.model, o)
      c1 == check(g.error)
      s1 == [self EXCEPT !.model = g.model]
      status == g.out
  IN  IF Failed(c1) THEN Out(s1, c1)
      ELSE IF status # GRB_OPTIMAL
      THEN Out(s1, Raise("MIPSolverException",
                         "Gurobi: " \o (IF status \in DOMAIN mip_status
                                        THEN mip_status[status]
                                        ELSE "unknown error during call to GRBoptimize : "
                                             \o str(status))))
      ELSE Out(s1, Return(0))

\* get_objective_value() without the constant term
get_objective_value_native(self) ==
  LET g  == GRBgetObjVal(self.model)
      c1 == check(g.error)
  IN  IF Failed(c1) THEN c1 ELSE Return(g.out)

\* get_objective_value(): the native ObjVal plus the stored constant term
get_objective_value(self) ==
  LET g  == GRBgetObjVal(self.model)
      c1 == check(g.error)
  IN  IF Failed(c1) THEN c1 ELSE Return(g.out + self.obj_constant_term)

\* __copy__() that keeps the model its constructor made
copy_without_clone(self) ==
  LET p0 == init(is_maximization(self))
      name == problem_name(self, None).res.val
  IN  problem_name(p0, name).self

\* __copy__(): a new adapter of the same sense, its model replaced by the clone,
\* then given the name the source reports
copy(self) ==
  LET p0 == init(is_maximization(self))
      p1 == [p0 EXCEPT !.model = GRBcopymodel(self.model)]
      name == problem_name(self, None).res.val
  IN  problem_name(p1, name).self

---------------------------------------------------------------------------
(* Solver parameters.  They live in the environment of the model; env is   *)
(* the values of the parameters the calls below name.                      *)

\* the kind of every parameter the adapter lets through
parameters_type ==
  "AggFill" :> "int" @@ "Aggregate" :> "int" @@ "BarConvTol" :> "double" @@
  "BarCorrectors" :> "int" @@ "BarHomogeneous" :> "int" @@ "BarOrder" :> "int" @@
  "BarQCPConvTol" :> "double" @@ "BarIterLimit" :> "int" @@ "BranchDir" :> "int" @@
  "CliqueCuts" :> "int" @@ "CoverCuts" :> "int" @@ "Crossover" :> "int" @@
  "CrossoverBasis" :> "int" @@ "Cutoff" :> "double" @@ "CutAggPasses" :> "int" @@
  "CutPasses" :> "int" @@ "Cuts" :> "int" @@ "DisplayInterval" :> "int" @@
  "DualReductions" :> "int" @@ "FeasibilityTol" :> "double" @@ "FeasRelaxBigM" :> "double" @@
  "FlowCoverCuts" :> "int" @@ "FlowPathCuts" :> "int" @@ "GomoryPasses" :> "int" @@
  "GUBCoverCuts" :> "int" @@ "Heuristics" :> "double" @@ "IISMethod" :> "int" @@
  "ImpliedCuts" :> "int" @@ "ImproveStartGap" :> "double" @@ "ImproveStartNodes" :> "double" @@
  "ImproveStartTime" :> "double" @@ "InfUnbdInfo" :> "int" @@ "IntegralityFocus" :> "int" @@
  "InputFile" :> "string" @@ "IntFeasTol" :> "double" @@ "IterationLimit" :> "double" @@
  "LogFile" :> "string" @@ "LogToConsole" :> "int" @@ "MarkowitzTol" :> "double" @@
  "Method" :> "int" @@ "MinRelNodes" :> "int" @@ "MIPFocus" :> "int" @@
  "MIPGap" :> "double" @@ "MIPGapAbs" :> "double" @@ "MIPSepCuts" :> "int" @@
  "MIQCPMethod" :> "int" @@ "MIRCuts" :> "int" @@ "ModKCuts" :> "int" @@
  "NetworkCuts" :> "int" @@ "NodefileDir" :> "string" @@ "NodefileStart" :> "double" @@
  "NodeLimit" :> "double" @@ "NodeMethod" :> "int" @@ "NormAdjust" :> "int" @@
  "ObjScale" :> "double" @@ "OptimalityTol" :> "double" @@ "OutputFlag" :> "int" @@
  "PerturbValue" :> "double" @@ "PreCrush" :> "int" @@ "PreDepRow" :> "int" @@
  "PreDual" :> "int" @@ "PrePasses" :> "int" @@ "PreQLinearize" :> "int" @@
  "Presolve" :> "int" @@ "PreSparsify" :> "int" @@ "PSDTol" :> "double" @@
  "PumpPasses" :> "int" @@ "QCPDual" :> "int" @@ "Quad" :> "int" @@
  "ResultFile" :> "string" @@ "RINS" :> "int" @@ "ScaleFlag" :> "int" @@
  "Seed" :> "int" @@ "Sifting" :> "int" @@ "SiftMethod" :> "int" @@
  "SimplexPricing" :> "int" @@ "SolutionLimit" :> "int" @@ "SolutionNumber" :> "int" @@
  "SubMIPCuts" :> "int" @@ "SubMIPNodes" :> "int" @@ "Symmetry" :> "int" @@
  "Threads" :> "int" @@ "TimeLimit" :> "double" @@ "VarBranch" :> "int" @@
  "ZeroHalfCuts" :> "int" @@ "ZeroObjNodes" :> "int"

\* the names the calls are made with
ParameterNames ==
  {"timelimit", "TimeLimit", "TIMELIMIT", "logfile", "LogFile", "LOGFILE",
   "VarBranch", "varbranch", "MIPGap", "NoSuchParameter"}

\* str.lower() on those names
lower(name) ==
  CASE name \in {"timelimit", "TimeLimit", "TIMELIMIT"} -> "timelimit"
    [] name \in {"logfile", "LogFile", "LOGFILE"} -> "logfile"
    [] name \in {"VarBranch", "varbranch"} -> "varbranch"
    [] name = "MIPGap" -> "mipgap"
    [] OTHER -> "nosuchparameter"

\* the environment GRBnewmodel gives the model: the parameters at their defaults
GRBgetenv ==
  [TimeLimit |-> GRB_INFINITY, LogFile |-> "", VarBranch |-> -1, MIPGap |-> 0]

\* GRBget{int,dbl,str}param / GRBset{int,dbl,str}param: the entry point of a
\* kind serves the parameters of that kind; entry names the entry point
GRBgetparam(env, kind, name) ==
  [env |-> env, error |-> 0, out |-> env[name], entry |-> "GRBget" \o kind \o "param"]

GRBsetparam(env, kind, name, value) ==
  [env |-> [env EXCEPT ![name] = value], error |-> 0, out |-> None,
   entry |-> "GRBset" \o kind \o "param"]

\* solver_parameter(name, value) with the first alias taken in any letter case
solver_parameter_any_case(self, name, value) ==
  LET name1 == IF lower(name) = "timelimit" THEN "TimeLimit"
               ELSE IF lower(name) = "logfile" THEN "LogFile" ELSE name
      t == parameters_type[name1]
      k == CASE t = "int" -> "int" [] t = "double" -> "dbl" [] OTHER -> "str"
      g == IF value = None THEN GRBgetparam(self.env, k, name1)
           ELSE GRBsetparam(self.env, k, name1, value[1])
  IN  IF name1 \notin DOMAIN parameters_type
      THEN [self |-> self, entry |-> "none",
            res |-> Raise("ValueError", "This parameter is not available. "
                                        \o "Enabling it may not be so hard, though.")]
      ELSE [self |-> [self EXCEPT !.env = g.env], entry |-> g.entry,
            res |-> IF Failed(check(g.error)) THEN check(g.error)
                    ELSE IF value = None THEN Return(Some(g.out)) ELSE Return(None)]

\* solver_parameter(name, value): the two aliases, the kind from the table, then
\* the entry point of that kind, reading when value is None
solver_parameter(self, name, value) ==
  LET name1 == IF name = "timelimit" THEN "TimeLimit"
               ELSE IF lower(name) = "logfile" THEN "LogFile" ELSE name
      t == parameters_type[name1]
      k == CASE t = "int" -> "int" [] t = "double" -> "dbl" [] OTHER -> "str"
      g == IF value = None THEN GRBgetparam(self.env, k, name1)
           ELSE GRBsetparam(self.env, k, name1, value[1])
  IN  IF name1 \notin DOMAIN parameters_type
      THEN [self |-> self, entry |-> "none",
            res |-> Raise("ValueError", "This parameter is not available. "
                                        \o "Enabling it may not be so hard, though.")]
      ELSE [self |-> [self EXCEPT !.env = g.env], entry |-> g.entry,
            res |-> IF Failed(check(g.error)) THEN check(g.error)
                    ELSE IF value = None THEN Return(Some(g.out)) ELSE Return(None)]

---------------------------------------------------------------------------
(* The pointers of an adapter object: env_master and model, and where the   *)
(* object is in its life: "none" (no object), "failed" (__init__ raised),   *)
(* "ready", "gone" (deallocated).  A new object's pointers are NULL.        *)

Pointers(env_master, model, life) ==
  [env_master |-> env_master, model |-> model, life |-> life]

NoPointers == Pointers(NULL_HANDLE, NULL_HANDLE, "none")

\* what the three allocating calls of __init__ may come to
InitOutcomes ==
  { [env |-> "ok", start |-> "ok", model |-> "ok"],
    [env |-> "null", start |-> "ok", model |-> "ok"],
    [env |-> "error", start |-> "ok", model |-> "ok"],
    [env |-> "ok", start |-> "error", model |-> "ok"],
    [env |-> "ok", start |-> "ok", model |-> "error"] }

AllOk == [env |-> "ok", start |-> "ok", model |-> "ok"]

\* __init__, the allocations: the master environment, its start, the model;
\* the first call that fails raises and leaves the pointers set so far
init_handles(n, o) ==
  LET e == GRBemptyenv(n, o.env)
      s == GRBstartenv(e.objects, e.out, o.start)
      m == GRBnewmodel_handle(s.objects, e.out, o.model)
  IN  IF e.out = NULL_HANDLE
      THEN [objects |-> e.objects, self |-> Pointers(NULL_HANDLE, NULL_HANDLE, "failed"),
            res |-> Raise("RuntimeError", "Could not initialize Gurobi environment")]
      ELSE IF e.error # 0
      THEN [objects |-> e.objects, self |-> Pointers(e.out, NULL_HANDLE, "failed"),
            res |-> check(e.error)]
      ELSE IF s.error # 0
      THEN [objects |-> s.objects, self |-> Pointers(e.out, NULL_HANDLE, "failed"),
            res |-> check(s.error)]
      ELSE IF m.error # 0
      THEN [objects |-> m.objects, self |-> Pointers(e.out, m.out, "failed"),
            res |-> Raise("RuntimeError", "Could not initialize Gurobi model")]
      ELSE [objects |-> m.objects, self |-> Pointers(e.out, m.out, "ready"),
            res |-> Return(None)]

\* __dealloc__() that frees the model alone
dealloc_model_only(n, self) == GRBfreemodel(n, self.model)

\* __dealloc__(): frees the model, then the master environment
dealloc(n, self) == GRBfreeenv(GRBfreemodel(n, self.model), self.env_master)

\* __copy__() with the source's own model pointer kept in place of a clone's
copy_handles_alias(n, self) ==
  LET c == init_handles(n, AllOk)
  IN  [objects |-> c.objects, self |-> [c.self EXCEPT !.model = self.model]]

\* __copy__(), the pointers: the new adapter's constructor allocates its
\* environment and a model, then the model pointer is overwritten by the clone's
copy_handles(n, self) ==
  LET c == init_handles(n, AllOk)
      k == GRBcopymodel_handle(c.objects, self.model)
  IN  [objects |-> k.objects, self |-> [c.self EXCEPT !.model = k.out]]

---------------------------------------------------------------------------
(* The state machine: one adapter p, the copy q once copy(p) has run, the   *)
(* last call with its arguments and outcome, and the history of the calls  *)
(* that succeeded (what a caller keeping count would know).                *)

\* an index is settled when it names a committed entity or lies beyond the
\* queued ones; whether a queued entity can be addressed before the update
\* depends on the library's UpdateMode, so such calls are not enumerated
Settled(committed, queued, i) ==
  i < Len(committed) \/ i >= Len(committed) + Len(queued)

DefaultVariable ==
  [lower_bound |-> Some(0), upper_bound |-> None, binary |-> FALSE,
   continuous |-> FALSE, integer |-> FALSE, obj |-> 0, name |-> None,
   coefficients |-> None]

\* the add_variable calls enumerated: the defaults, a named integer variable
\* with other bounds and an objective coefficient, two kinds at once, a sparse column
AddVariableArgs ==
  { DefaultVariable,
    [DefaultVariable EXCEPT !.lower_bound = None, !.upper_bound = Some(1),
                            !.integer = TRUE, !.obj = 2, !.name = Some("x")],
    [DefaultVariable EXCEPT !.continuous = TRUE, !.integer = TRUE],
    [DefaultVariable EXCEPT !.coefficients = Some(<< <<0, 1>> >>)] }

\* the add_linear_constraint calls enumerated: no bound, <=, >=, =, range
\* (lower_bound <= upper_bound whenever both are given)
AddLinearConstraintArgs ==
  { [coefficients |-> << >>, lower_bound |-> None, upper_bound |-> None, name |-> None],
    [coefficients |-> << <<0, 1>> >>, lower_bound |-> None, upper_bound |-> Some(2),
     name |-> None],
    [coefficients |-> << >>, lower_bound |-> Some(2), upper_bound |-> None,
     name |-> Some("foo")],
    [coefficients |-> << <<0, 1>>, <<1, 2>> >>, lower_bound |-> Some(1),
     upper_bound |-> Some(1), name |-> None],
    [coefficients |-> << <<0, 1>> >>, lower_bound |-> Some(1), upper_bound |-> Some(2),
     name |-> Some("bar")] }

\* objective coefficients and constants passed by the caller
Coefficients == {0, 2}

Constants == {0, 7}

\* what an optimize call may come to: a native error (one the errors table
\* names, one it does not), or a status, with a solution when it is optimal
SolveOutcomes ==
  {[error |-> e, status |-> 1, sol |-> None] : e \in {10009, 10022}}
  \cup {[error |-> 0, status |-> GRB_OPTIMAL, sol |-> Some(3)]}
  \cup {[error |-> 0, status |-> st, sol |-> None] : st \in (1..13) \ {GRB_OPTIMAL}}

\* the indices a call is given: the committed ones and the first one beyond
\* every entity, queued ones included
IndexArgs(committed, queued) ==
  (0..(Len(committed) - 1)) \cup {Len(committed) + Len(queued)}

ColIndices(m) == IndexArgs(m.cols, m.pcols)

RowIndices(m) == IndexArgs(m.rows, m.prows)

\* all sequences over S of length n
Lists(S, n) == [1..n -> S]

NoAdapter == << >>

Called(op, args, res) == [op |-> op, args |-> args, res |-> res]

Init ==
  /\ \E maximization \in BOOLEAN :
       /\ p = init(maximization)
       /\ last = Called("init", maximization, Return(None))
  /\ q = NoAdapter
  /\ hist = [add_variable |-> 0, add_linear_constraint |-> 0,
             remove_constraint |-> 0, d |-> 0, after_copy |-> 0]
  /\ LET c == init_handles(NoObjects, AllOk)
     IN  native = [objects |-> c.objects, p |-> c.self, q |-> NoPointers]

AddVariable(Args) ==
  /\ hist.add_variable < MaxVars
  /\ \E a \in Args :
       LET r == add_variable(p, a)
       IN  /\ a.coefficients # None =>
                \A k \in 1..Len(a.coefficients[1]) :
                   Settled(p.model.rows, p.model.prows, a.coefficients[1][k][1])
           /\ p' = r.self
           /\ last' = Called("add_variable", a, r.res)
           /\ hist' = IF Failed(r.res) THEN hist
                      ELSE [hist EXCEPT !.add_variable = @ + 1]
  /\ UNCHANGED <<q, native>>

AddLinearConstraint(Args, Most) ==
  /\ hist.add_linear_constraint < Most
  /\ \E a \in Args :
       LET r == add_linear_constraint(p, a.coefficients, a.lower_bound,
                                      a.upper_bound, a.name)
       IN  /\ \A k \in 1..Len(a.coefficients) :
                 Settled(p.model.cols, p.model.pcols, a.coefficients[k][1])
           /\ p' = r.self
           /\ last' = Called("add_linear_constraint", a, r.res)
           /\ hist' = IF Failed(r.res) THEN hist
                      ELSE [hist EXCEPT !.add_linear_constraint = @ + 1]
  /\ UNCHANGED <<q, native>>

\* a row already marked for deletion is not removed a second time before the update
RemoveConstraint ==
  \E i \in RowIndices(p.model) :
    LET r == remove_constraint(p, i)
    IN  /\ i \notin p.model.pdel
        /\ p' = r.self
        /\ last' = Called("remove_constraint", i, r.res)
        /\ hist' = IF Failed(r.res) THEN hist
                   ELSE [hist EXCEPT !.remove_constraint = @ + 1]
        /\ UNCHANGED <<q, native>>

SetVariableType(Vars, Types) ==
  \E i \in ColIndices(p.model) \cap Vars, t \in Types :
    LET r == set_variable_type(p, i, t)
    IN  /\ p' = r.self
        /\ last' = Called("set_variable_type", <<i, t>>, r.res)
        /\ UNCHANGED <<q, hist, native>>

SetSense ==
  \E sense \in {1, -1} :
    LET r == set_sense(p, sense)
    IN  /\ p' = r.self
        /\ last' = Called("set_sense", sense, r.res)
        /\ UNCHANGED <<q, hist, native>>

ObjectiveCoefficient(Coefs) ==
  \E i \in ColIndices(p.model), coeff \in {None} \cup {Some(c) : c \in Coefs} :
    LET r == objective_coefficient(p, i, coeff)
    IN  /\ p' = r.self
        /\ last' = Called("objective_coefficient", [variable |-> i, coeff |-> coeff], r.res)
        /\ UNCHANGED <<q, hist, native>>

\* every coefficient list as long as the model has columns, and the lists of
\* one value that are one element longer
SetObjective(Coefs, Ds) ==
  \E d \in Ds :
    \E coeff \in Lists(Coefs, ncols(p))
                 \cup {[k \in 1..(ncols(p) + 1) |-> c] : c \in Coefs} :
      LET r == set_objective(p, coeff, d)
      IN  /\ Len(coeff) > ncols(p) => /\ p.model.pcols = << >>
                                      /\ Len(p.model.pattr) < MaxQueued
          /\ p' = r.self
          /\ last' = Called("set_objective", [coeff |-> coeff, d |-> d], r.res)
          /\ hist' = IF Failed(r.res) THEN hist ELSE [hist EXCEPT !.d = d]
          /\ UNCHANGED <<q, native>>

Solve(Outcomes) ==
  \E o \in Outcomes :
    LET r == solve(p, o)
    IN  /\ p' = r.self
        /\ last' = Called("solve", o, r.res)
        /\ UNCHANGED <<q, hist, native>>

GetObjectiveValue ==
  /\ last' = Called("get_objective_value", None, get_objective_value(p))
  /\ UNCHANGED <<p, q, hist, native>>

ProblemName(Names) ==
  \E name \in {None} \cup {Some(n) : n \in Names} :
    LET r == problem_name(p, name)
    IN  /\ p' = r.self
        /\ last' = Called("problem_name", name, r.res)
        /\ UNCHANGED <<q, hist, native>>

\* copy(p): q is the copy
Copy ==
  /\ q = NoAdapter
  /\ native.p.life = "ready" /\ native.q.life \in {"none", "gone"}
  /\ Len(native.objects.envs) < MaxObjects
  /\ q' = copy(p)
  /\ LET c == copy_handles(native.objects, native.p)
     IN  native' = [native EXCEPT !.objects = c.objects, !.q = c.self]
  /\ last' = Called("copy", None, Return(None))
  /\ UNCHANGED <<p, hist>>

\* variable_lower_bound / variable_upper_bound with and without a value
BoundValues == {PyFalse, PyNone, PyNum(0), PyNum(3)}

\* the call is kept with what col_bounds gave for the index before it
VariableBound(Vars, Values) ==
  \E i \in ColIndices(p.model) \cap Vars, value \in Values, side \in {"lower", "upper"} :
    LET r == IF side = "lower" THEN variable_lower_bound(p, i, value)
             ELSE variable_upper_bound(p, i, value)
    IN  /\ p' = r.self
        /\ last' = Called(IF side = "lower" THEN "variable_lower_bound"
                          ELSE "variable_upper_bound",
                          [index |-> i, value |-> value, before |-> col_bounds(p, i)],
                          r.res)
        /\ UNCHANGED <<q, hist, native>>

\* the state after construction, with the environment of the model
InitParameters ==
  /\ \E maximization \in BOOLEAN :
       /\ p = [model |-> init(maximization).model,
               obj_constant_term |-> init(maximization).obj_constant_term,
               env |-> GRBgetenv]
       /\ last = Called("init", maximization, Return(None))
  /\ q = NoAdapter
  /\ hist = [add_variable |-> 0, add_linear_constraint |-> 0,
             remove_constraint |-> 0, d |-> 0, after_copy |-> 0]
  /\ LET c == init_handles(NoObjects, AllOk)
     IN  native = [objects |-> c.objects, p |-> c.self, q |-> NoPointers]

\* solver_parameter(name) and solver_parameter(name, value), the value of a
\* type the parameter takes; the call is kept with the environment before it
\* and the native entry point it went to
SolverParameter ==
  \E name \in ParameterNames :
    \E value \in {None} \cup (IF lower(name) = "logfile" THEN {Some("/dev/null")}
                              ELSE {Some(0), Some(10)}) :
      LET r == solver_parameter(p, name, value)
      IN  /\ p' = r.self
          /\ last' = Called("solver_parameter",
                            [name |-> name, value |-> value, before |-> p.env,
                             entry |-> r.entry],
                            r.res)
          /\ UNCHANGED <<q, hist, native>>

\* the program before any adapter is constructed
InitLife ==
  /\ p = NoAdapter /\ q = NoAdapter
  /\ last = Called("none", None, Return(None))
  /\ hist = [add_variable |-> 0, add_linear_constraint |-> 0,
             remove_constraint |-> 0, d |-> 0, after_copy |-> 0]
  /\ native = [objects |-> NoObjects, p |-> NoPointers, q |-> NoPointers]

\* GurobiBackend(maximization): a new object, its pointers NULL, then __init__;
\* o is what the allocating calls come to
Construct ==
  /\ native.p.life \in {"none", "gone"}
  /\ Len(native.objects.envs) < MaxObjects
  /\ \E maximization \in BOOLEAN, o \in InitOutcomes :
       LET c == init_handles(native.objects, o)
       IN  /\ native' = [native EXCEPT !.objects = c.objects, !.p = c.self]
           /\ p' = IF Failed(c.res) THEN NoAdapter ELSE init(maximization)
           /\ last' = Called("init", maximization, c.res)
  /\ hist' = [add_variable |-> 0, add_linear_constraint |-> 0,
              remove_constraint |-> 0, d |-> 0, after_copy |-> 0]
  /\ UNCHANGED q

\* the end of the life of an object, p or q: the runtime calls __dealloc__ once,
\* also on an object whose __init__ raised
Teardown(who) ==
  /\ native[who].life \in {"failed", "ready"}
  /\ native' = [native EXCEPT !.objects = dealloc(native.objects, native[who]),
                              ![who].life = "gone"]
  /\ p' = IF who = "p" THEN NoAdapter ELSE p
  /\ q' = IF who = "q" THEN NoAdapter ELSE q
  /\ last' = Called("dealloc", who, Return(None))
  /\ UNCHANGED hist

\* the calls that change an adapter, made on its first variable and first row
Mutators ==
  {"add_variable", "add_linear_constraint", "remove_constraint",
   "variable_lower_bound", "variable_upper_bound", "set_variable_type",
   "objective_coefficient", "set_objective", "set_sense", "problem_name"}

Mutation(a, op) ==
  CASE op = "add_variable" -> add_variable(a, DefaultVariable)
    [] op = "add_linear_constraint" -> add_linear_constraint(a, << >>, None, Some(2), None)
    [] op = "remove_constraint" -> remove_constraint(a, 0)
    [] op = "variable_lower_bound" -> variable_lower_bound(a, 0, PyNum(1))
    [] op = "variable_upper_bound" -> variable_upper_bound(a, 0, PyNum(5))
    [] op = "set_variable_type" -> set_variable_type(a, 0, 1)
    [] op = "objective_coefficient" -> objective_coefficient(a, 0, Some(2))
    [] op = "set_objective" -> set_objective(a, [k \in 1..ncols(a) |-> 2], 7)
    [] op = "set_sense" -> set_sense(a, IF is_maximization(a) THEN -1 ELSE 1)
    [] OTHER -> problem_name(a, Some("copy"))

\* a call on p or on q once both exist; adapters whose model pointers are the
\* same pointer see the same native model
Mutate(who) ==
  /\ native.p.life = "ready" /\ native.q.life = "ready"
  /\ hist.after_copy < MaxAfterCopy
  /\ \E op \in Mutators :
       LET a == IF who = "p" THEN p ELSE q
           r == Mutation(a, op)
           same == native.p.model = native.q.model
       IN  /\ op = "remove_constraint" => 0 \notin a.model.pdel
           /\ p' = IF who = "p" THEN r.self
                    ELSE IF same THEN [p EXCEPT !.model = r.self.model] ELSE p
           /\ q' = IF who = "q" THEN r.self
                    ELSE IF same THEN [q EXCEPT !.model = r.self.model] ELSE q
           /\ last' = Called("mutation", [who |-> who, call |-> op], r.res)
  /\ hist' = [hist EXCEPT !.after_copy = @ + 1]
  /\ UNCHANGED native

\* the arguments the specifications choose among
PlainRow == {a \in AddLinearConstraintArgs : a.coefficients = << >> /\ a.name # None}

RangeRow == {a \in AddLinearConstraintArgs :
               a.lower_bound # None /\ a.upper_bound # None /\ a.lower_bound # a.upper_bound}

UpperRow == {a \in AddLinearConstraintArgs : a.lower_bound = None /\ a.upper_bound # None}

PlainVariables == {a \in AddVariableArgs : a.coefficients = None /\ ~a.continuous}

Optimal == {o \in SolveOutcomes : o.status = GRB_OPTIMAL}

\* add_variable with every choice of binary, continuous and integer
KindArgs ==
  {[DefaultVariable EXCEPT !.binary = b, !.continuous = c, !.integer = i] :
     b \in BOOLEAN, c \in BOOLEAN, i \in BOOLEAN}

\* building the model: variables, rows of every form, row removal, and the
\* solve that processes what is queued
Next ==
  \/ AddVariable(AddVariableArgs)
  \/ AddLinearConstraint(AddLinearConstraintArgs, MaxRows)
  \/ RemoveConstraint
  \/ Solve(Optimal)

Spec == Init /\ [][Next]_vars

\* the objective function set as a whole, on models with range rows
NextObjective ==
  \/ AddVariable(PlainVariables)
  \/ AddLinearConstraint(RangeRow, MaxRanges)
  \/ SetObjective(Coefficients, {7})

SpecObjective == Init /\ [][NextObjective]_vars

\* the objective coefficients one by one and the constant term, among every
\* other operation
NextConstant ==
  \/ AddVariable({DefaultVariable})
  \/ AddLinearConstraint(PlainRow, MaxRows)
  \/ RemoveConstraint
  \/ SetVariableType({0}, {1})
  \/ SetSense
  \/ ObjectiveCoefficient(Coefficients)
  \/ SetObjective({2}, Constants)
  \/ Solve(Optimal)
  \/ GetObjectiveValue

SpecConstant == Init /\ [][NextConstant]_vars

\* solving: every outcome of the optimize call
NextSolve ==
  \/ AddVariable({DefaultVariable})
  \/ AddLinearConstraint(PlainRow, MaxRows)
  \/ Solve(SolveOutcomes)
  \/ GetObjectiveValue

SpecSolve == Init /\ [][NextSolve]_vars

\* copying: the adapter is built, then copied
NextCopy ==
  \/ /\ q = NoAdapter
     /\ \/ AddVariable(PlainVariables)
        \/ AddLinearConstraint(UpperRow \cup RangeRow, MaxRows)
        \/ RemoveConstraint
        \/ SetSense
        \/ ProblemName({"lp"})
        \/ Solve(Optimal)
  \/ Copy

SpecCopy == Init /\ [][NextCopy]_vars

\* an adapter and its copy, each changed after the copy was taken
NextBoth ==
  \/ /\ q = NoAdapter
     /\ \/ AddVariable({DefaultVariable})
        \/ AddLinearConstraint(UpperRow, MaxRanges)
        \/ Solve(Optimal)
  \/ Copy
  \/ Mutate("p")
  \/ Mutate("q")

SpecBoth == Init /\ [][NextBoth]_vars

\* the kinds of the variables: given at creation, changed afterwards, on
\* models that also get the slack columns of range rows
NextTypes ==
  \/ AddVariable(KindArgs)
  \/ AddLinearConstraint(RangeRow, MaxRanges)
  \/ SetVariableType(0..(MaxVars + MaxRanges), {1, 0, -1})
  \/ Solve(Optimal)

SpecTypes == Init /\ [][NextTypes]_vars

\* the bounds of the variables, written and read
NextBounds ==
  \/ AddVariable(PlainVariables)
  \/ VariableBound({0, 1}, BoundValues)

SpecBounds == Init /\ [][NextBounds]_vars

\* the solver parameters, read and written
NextParameters == SolverParameter

SpecParameters == InitParameters /\ [][NextParameters]_vars

\* the lives of the adapters: constructed, used, copied, torn down
NextLife ==
  \/ Construct
  \/ native.p.life = "ready" /\ AddVariable({DefaultVariable})
  \/ Copy
  \/ Teardown("p")
  \/ Teardown("q")

SpecLife == InitLife /\ [][NextLife]_vars

\* ---- the temporary buffers of the marshalling code ----
\* The heap holds the buffers of the operation in progress, each with the
\* number of elements asked for and the number of times it was freed.

NoHeap == << >>

\* sig_malloc(count * sizeof(...)): a new buffer, also for count = 0
sig_malloc(heap, count) ==
  [heap |-> Append(heap, [count |-> count, frees |-> 0]), out |-> Len(heap) + 1]

\* sig_free(ptr)
sig_free(heap, ptr) == [heap EXCEPT ![ptr].frees = @ + 1]

\* add_variable, the buffers: none when the kinds are refused or no column is
\* given; else c_indices and c_coeff, freed after GRBaddvar returns and
\* before its error code is checked
add_variable_buffers(heap, self, a) ==
  LET count == (IF a.binary THEN 1 ELSE 0) + (IF a.continuous THEN 1 ELSE 0)
               + (IF a.integer THEN 1 ELSE 0)
      nonzeros  == Len(a.coefficients[1])
      c_indices == sig_malloc(heap, nonzeros)
      c_coeff   == sig_malloc(c_indices.heap, nonzeros)
  IN  IF count > 1 THEN heap
      ELSE IF a.coefficients = None THEN heap
      ELSE sig_free(sig_free(c_coeff.heap, c_coeff.out), c_indices.out)

\* add_linear_constraint, the buffers: none when both bounds are None; else
\* row_i and row_values, freed after the error code of the native call has
\* been checked, which raises when it is not zero
add_linear_constraint_buffers(heap, self, coefficients, lower_bound, upper_bound, name) ==
  LET n          == Len(coefficients)
      row_i      == sig_malloc(heap, n)
      row_values == sig_malloc(row_i.heap, n)
      r          == add_linear_constraint(self, coefficients, lower_bound,
                                          upper_bound, name)
  IN  IF lower_bound = None /\ upper_bound = None THEN heap
      ELSE IF Failed(r.res) THEN row_values.heap
      ELSE sig_free(sig_free(row_values.heap, row_i.out), row_values.out)

\* row, the buffers: none when the first GRBgetconstrs, which asks for the
\* length, fails; else p_indices and p_values, freed after the error code of
\* the second GRBgetconstrs has been checked
row_buffers(heap, self, index) ==
  LET first     == GRBgetconstrs(self.model, index)
      length    == Len(first.out)
      p_indices == sig_malloc(heap, length)
      p_values  == sig_malloc(p_indices.heap, length)
      second    == GRBgetconstrs(self.model, index)
  IN  IF Failed(check(first.error)) THEN heap
      ELSE IF Failed(check(second.error)) THEN p_values.heap
      ELSE sig_free(sig_free(p_values.heap, p_indices.out), p_values.out)

InitBuffers ==
  /\ \E maximization \in BOOLEAN :
       /\ p = init(maximization)
       /\ last = Called("init", maximization, Return(None))
  /\ q = NoAdapter
  /\ hist = [add_variable |-> 0, add_linear_constraint |-> 0,
             remove_constraint |-> 0, d |-> 0, after_copy |-> 0]
  /\ LET c == init_handles(NoObjects, AllOk)
     IN  native = [objects |-> c.objects, p |-> c.self, q |-> NoPointers,
                   heap |-> NoHeap]

\* add_variable with the buffers it allocates and frees
AddVariableBuffers(Args) ==
  /\ hist.add_variable < MaxVars
  /\ \E a \in Args :
       LET r == add_variable(p, a)
       IN  /\ a.coefficients # None =>
                \A k \in 1..Len(a.coefficients[1]) :
                   Settled(p.model.rows, p.model.prows, a.coefficients[1][k][1])
           /\ p' = r.self
           /\ last' = Called("add_variable", a, r.res)
           /\ hist' = IF Failed(r.res) THEN hist
                      ELSE [hist EXCEPT !.add_variable = @ + 1]
           /\ native' = [native EXCEPT !.heap = add_variable_buffers(NoHeap, p, a)]
  /\ UNCHANGED q

\* add_linear_constraint with the buffers it allocates and frees
AddLinearConstraintBuffers(Args, Most) ==
  /\ hist.add_linear_constraint < Most
  /\ \E a \in Args :
       LET r == add_linear_constraint(p, a.coefficients, a.lower_bound,
                                      a.upper_bound, a.name)
       IN  /\ \A k \in 1..Len(a.coefficients) :
                 Settled(p.model.cols, p.model.pcols, a.coefficients[k][1])
           /\ p' = r.self
           /\ last' = Called("add_linear_constraint", a, r.res)
           /\ hist' = IF Failed(r.res) THEN hist
                      ELSE [hist EXCEPT !.add_linear_constraint = @ + 1]
           /\ native' = [native EXCEPT !.heap =
                           add_linear_constraint_buffers(NoHeap, p, a.coefficients,
                             a.lower_bound, a.upper_bound, a.name)]
  /\ UNCHANGED q

\* row(index) with the buffers it allocates and frees
RowBuffers ==
  /\ \E i \in RowIndices(p.model) :
       /\ last' = Called("row", i, row(p, i))
       /\ native' = [native EXCEPT !.heap = row_buffers(NoHeap, p, i)]
  /\ UNCHANGED <<p, q, hist>>

\* the operations that marshal arrays to and from the native layer
NextBuffers ==
  \/ AddVariableBuffers(AddVariableArgs)
  \/ AddLinearConstraintBuffers(AddLinearConstraintArgs, MaxRows)
  \/ RowBuffers

SpecBuffers == InitBuffers /\ [][NextBuffers]_vars

\* copying an adapter whose objective has a constant term
NextCopyConstant ==
  \/ /\ q = NoAdapter
     /\ \/ AddVariable({DefaultVariable})
        \/ AddLinearConstraint(PlainRow, MaxRows)
        \/ SetObjective({2}, Constants)
        \/ Solve(Optimal)
  \/ Copy

SpecCopyConstant == Init /\ [][NextCopyConstant]_vars

---------------------------------------------------------------------------
(* The claims.                                                             *)

\* the number of rows a caller counts: rows added less rows removed
RowsCounted == hist.add_linear_constraint - hist.remove_constraint

\* C1: after a successful add_linear_constraint(coeffs, lb, ub), row_bounds of
\* the new row (the last of the rows the caller has) returns the pair (lb, ub)
C1_RowBoundsReturnWrittenPair ==
  (last.op = "add_linear_constraint" /\ ~Failed(last.res)) =>
     row_bounds(p, RowsCounted - 1)
       = Return(<<last.args.lower_bound, last.args.upper_bound>>)

\* C2: right after every add_variable, add_linear_constraint or remove_constraint
\* call, ncols() is the number of successful add_variable calls and nrows() the
\* number of successful add_linear_constraint calls less that of successful
\* remove_constraint calls
C2_CountsMatchCalls ==
  last.op \in {"add_variable", "add_linear_constraint", "remove_constraint"} =>
     /\ ncols(p) = hist.add_variable
     /\ nrows(p) = RowsCounted

\* C3: a successful add_variable returns the number of variables earlier
\* add_variable calls created, and the new variable is at once counted by
\* ncols() and has the bounds given in col_bounds()
C3_AddVariableReturnsCount ==
  (last.op = "add_variable" /\ ~Failed(last.res)) =>
     /\ last.res.val = hist.add_variable - 1
     /\ ncols(p) = last.res.val + 1
     /\ col_bounds(p, last.res.val)
          = Return(<<last.args.lower_bound, last.args.upper_bound>>)

\* C4: a successful remove_constraint(i) makes nrows() one less, leaves row,
\* row_bounds and row_name of every row below i as they were, and gives every
\* j >= i what j + 1 had
C4_RemoveShiftsRows ==
  [][(last'.op = "remove_constraint" /\ ~Failed(last'.res)) =>
       LET i == last'.args
       IN  /\ nrows(p') = nrows(p) - 1
           /\ \A j \in 0..(nrows(p) - 1) :
                /\ j < i => /\ row(p', j) = row(p, j)
                            /\ row_bounds(p', j) = row_bounds(p, j)
                            /\ row_name(p', j) = row_name(p, j)
                /\ (j >= i /\ j < nrows(p) - 1) =>
                            /\ row(p', j) = row(p, j + 1)
                            /\ row_bounds(p', j) = row_bounds(p, j + 1)
                            /\ row_name(p', j) = row_name(p, j + 1)]_vars

\* C5: objective_coefficient(i, c) with a value c, 0 included, on a variable i
\* returns nothing and sets the coefficient: a read that follows returns c
C5_CoefficientWriteWrites ==
  (/\ last.op = "objective_coefficient"
   /\ last.args.coeff # None
   /\ ValidIndex(p.model.cols, last.args.variable)) =>
     /\ last.res = Return(None)
     /\ objective_coefficient(p, last.args.variable, None).res
          = Return(Some(last.args.coeff[1]))

\* C6: after a successful set_objective(coeff, d) with one coefficient per
\* variable, objective_coefficient(k) returns coeff[k] for every k
C6_SetObjectiveRoundTrip ==
  (last.op = "set_objective" /\ ~Failed(last.res)) =>
     \A k \in 0..(Len(last.args.coeff) - 1) :
        objective_coefficient(p, k, None).res = Return(Some(At(last.args.coeff, k)))

\* C6 happens: a list starting with 0 was set on a model whose first coefficient
\* could be 2, and the call's update brought in a queued slack column
C6_Witness ==
  /\ last.op = "set_objective" /\ ~Failed(last.res)
  /\ Len(last.args.coeff) = 2 /\ last.args.coeff[1] = 0 /\ last.args.coeff[2] = 2
  /\ ncols(p) > Len(last.args.coeff)

\* C7: the stored constant term is the d of the last successful set_objective
\* (0 if there was none), whatever else was called, and a get_objective_value()
\* that returns gives the native objective value plus it
C7_ObjectiveValueAddsConstant ==
  /\ p.obj_constant_term = hist.d
  /\ (last.op = "get_objective_value" /\ ~Failed(last.res)) =>
        /\ p.model.sol # None
        /\ last.res.val = p.model.sol[1] + hist.d

\* C7 happens: the objective value is read after a solve, with a constant of 7
\* set before a row was added, a type and the sense changed and a row removed
C7_Witness ==
  /\ last.op = "get_objective_value" /\ ~Failed(last.res)
  /\ hist.d = 7 /\ last.res.val = 10
  /\ hist.remove_constraint > 0
  /\ ~is_maximization(p)
  /\ ncols(p) > 0 /\ p.model.cols[1].vtype = GRB_INTEGER

\* C8: solve() returns if and only if the optimize call succeeded with status
\* optimal; with any other status it raises the solver exception, with the
\* status's reason for the seven statuses of the table and the unknown-error
\* message with the code for any other
C8_SolveOutcome ==
  last.op = "solve" =>
     LET o == last.args
         reason ==
           CASE o.status = GRB_INFEASIBLE      -> "The problem is infeasible"
             [] o.status = GRB_INF_OR_UNBD     -> "The problem is infeasible or unbounded"
             [] o.status = GRB_UNBOUNDED       -> "The problem is unbounded"
             [] o.status = GRB_ITERATION_LIMIT -> "The iteration limit has been reached"
             [] o.status = GRB_NODE_LIMIT      -> "The node limit has been reached"
             [] o.status = GRB_TIME_LIMIT      -> "The time limit has been reached"
             [] o.status = GRB_SOLUTION_LIMIT  -> "The solution limit has been reached"
             [] OTHER -> "unknown error during call to GRBoptimize : " \o str(o.status)
     IN  /\ ~Failed(last.res) <=> (o.error = 0 /\ o.status = GRB_OPTIMAL)
         /\ (o.error = 0 /\ o.status # GRB_OPTIMAL) =>
               last.res = Raise("MIPSolverException", "Gurobi: " \o reason)

\* C8 happens: a solve ended with a status the table does not hold
C8_Witness ==
  /\ last.op = "solve" /\ last.args.error = 0 /\ last.args.status = 11
  /\ last.res.exc = "MIPSolverException"
  /\ nrows(p) > 0

\* C9: a nonzero native error code makes the call raise the solver exception,
\* whether the errors table holds the code or not
C9_NativeErrorIsSolverException ==
  (last.op = "solve" /\ last.args.error # 0) => last.res.exc = "MIPSolverException"

\* C10: right after q = copy(p), q reports what p reports: ncols, nrows, the
\* bounds, coefficients and name of every column and row, the objective
\* coefficients, the sense and the problem name
C10_CopyReportsTheSame ==
  last.op = "copy" =>
     LET Reports(a) ==
           [ncols |-> ncols(a), nrows |-> nrows(a),
            col_bounds |-> [i \in 0..(MaxVars + MaxRows) |-> col_bounds(a, i)],
            col_name |-> [i \in 0..(MaxVars + MaxRows) |-> col_name(a, i)],
            objective |-> [i \in 0..(MaxVars + MaxRows) |->
                             objective_coefficient(a, i, None).res],
            row_bounds |-> [i \in 0..MaxRows |-> row_bounds(a, i)],
            row |-> [i \in 0..MaxRows |-> row(a, i)],
            row_name |-> [i \in 0..MaxRows |-> row_name(a, i)],
            is_maximization |-> is_maximization(a),
            problem_name |-> problem_name(a, None).res]
     IN  q # NoAdapter /\ Reports(q) = Reports(p)

\* C10 happens: the copy was taken of a named minimisation model with two
\* columns, a committed row marked for deletion and a row still queued
C10_Witness ==
  /\ last.op = "copy" /\ q # NoAdapter
  /\ ncols(p) >= 2 /\ nrows(p) >= 1
  /\ p.model.prows # << >> /\ p.model.pdel # {}
  /\ p.model.ModelName = "lp" /\ ~is_maximization(p)

\* everything an adapter can be asked
Queries(a) ==
  [ncols |-> ncols(a), nrows |-> nrows(a),
   col_bounds |-> [i \in 0..(MaxVars + MaxRows) |-> col_bounds(a, i)],
   lower |-> [i \in 0..(MaxVars + MaxRows) |-> variable_lower_bound(a, i, PyFalse).res],
   upper |-> [i \in 0..(MaxVars + MaxRows) |-> variable_upper_bound(a, i, PyFalse).res],
   col_name |-> [i \in 0..(MaxVars + MaxRows) |-> col_name(a, i)],
   vtype |-> [i \in 0..(MaxVars + MaxRows) |->
                <<is_variable_binary(a, i), is_variable_integer(a, i),
                  is_variable_continuous(a, i)>>],
   objective |-> [i \in 0..(MaxVars + MaxRows) |-> objective_coefficient(a, i, None).res],
   row_bounds |-> [i \in 0..MaxRows |-> row_bounds(a, i)],
   row |-> [i \in 0..MaxRows |-> row(a, i)],
   row_name |-> [i \in 0..MaxRows |-> row_name(a, i)],
   is_maximization |-> is_maximization(a),
   problem_name |-> problem_name(a, None).res,
   objective_value |-> get_objective_value(a)]

\* C11: once q = copy(p) exists, a call that changes p leaves every answer of
\* q as it was, and a call that changes q leaves every answer of p as it was
C11_CopyIsIndependent ==
  [][last'.op = "mutation" =>
       IF last'.args.who = "p" THEN Queries(q') = Queries(q)
       ELSE Queries(p') = Queries(p)]_vars

\* C11 happens: a call on p succeeded and changed what p answers, and a call on
\* q before it had changed what q answers
C11_Witness ==
  /\ last.op = "mutation" /\ last.args.who = "p" /\ ~Failed(last.res)
  /\ hist.after_copy = 2
  /\ Queries(p) # Queries(q)
  /\ Queries(q) # Queries(copy(p))
  /\ ncols(p) > 0 /\ nrows(p) > 0

\* C12: right after q = copy(p), q's stored constant term is p's, and the
\* objective value q gives after a successful solve is its native objective
\* value plus the d last given to p.set_objective
C12_CopyKeepsConstantTerm ==
  last.op = "copy" =>
     /\ q.obj_constant_term = p.obj_constant_term
     /\ \A o \in Optimal :
          get_objective_value(solve(q, o).self) = Return(o.sol[1] + hist.d)

\* the number of kinds an add_variable call asks for
Kinds(a) ==
  (IF a.binary THEN 1 ELSE 0) + (IF a.continuous THEN 1 ELSE 0)
  + (IF a.integer THEN 1 ELSE 0)

\* C13: add_variable asked for more than one of binary, continuous, integer
\* raises ValueError and leaves the adapter and its native model, queues
\* included, exactly as they were; asked for none, it creates a continuous
\* variable
C13_OneKindAtCreation ==
  [][last'.op = "add_variable" =>
       /\ Kinds(last'.args) > 1 => (last'.res.exc = "ValueError" /\ p' = p)
       /\ (Kinds(last'.args) = 0 /\ ~Failed(last'.res)) =>
             is_variable_continuous(p', last'.res.val) = Return(TRUE)]_vars

\* C13 happens: binary and integer were asked together on a model that has a
\* variable and a range row with its slack column
C13_Witness ==
  /\ last.op = "add_variable" /\ last.res.exc = "ValueError"
  /\ last.args.binary /\ last.args.integer /\ ~last.args.continuous
  /\ ncols(p) > 1 /\ nrows(p) > 0

\* C14: add_linear_constraint with neither bound raises ValueError and leaves
\* the adapter and its native model, queues included, as they were; and
\* row_bounds never returns (None, None), whatever the row
C14_RowsHaveABound ==
  [][/\ (/\ last'.op = "add_linear_constraint"
         /\ last'.args.lower_bound = None /\ last'.args.upper_bound = None) =>
            (last'.res.exc = "ValueError" /\ p' = p /\ nrows(p') = nrows(p))
     /\ \A i \in 0..MaxRows : row_bounds(p', i) # Return(<<None, None>>)]_vars

\* C14 happens: a row with neither bound was refused on a model with a
\* variable and a row whose bounds can be read
C14_Witness ==
  /\ last.op = "add_linear_constraint" /\ last.res.exc = "ValueError"
  /\ last.args.lower_bound = None /\ last.args.upper_bound = None
  /\ ncols(p) > 0 /\ nrows(p) > 0
  /\ row_bounds(p, 0).exc = "none"

\* C15: every variable of the model, slack columns included, is exactly one of
\* binary, integer and continuous, and after a successful set_variable_type(i, t)
\* variable i is the integer kind for t = 1, the binary kind for t = 0 and the
\* continuous kind for t = -1
C15_ExactlyOneKind ==
  /\ \A i \in 0..(ncols(p) - 1) :
       Cardinality({k \in {"B", "I", "C"} :
                      CASE k = "B" -> is_variable_binary(p, i).val
                        [] k = "I" -> is_variable_integer(p, i).val
                        [] OTHER   -> is_variable_continuous(p, i).val}) = 1
  /\ (last.op = "set_variable_type" /\ ~Failed(last.res)) =>
        LET i == last.args[1]
            t == last.args[2]
        IN  /\ is_variable_integer(p, i) = Return(t = 1)
            /\ is_variable_binary(p, i) = Return(t = 0)
            /\ is_variable_continuous(p, i) = Return(t = -1)

\* C15 happens: variable 0 was made the integer kind in a model that also
\* holds a binary variable and the slack column of a range row
C15_Witness ==
  /\ last.op = "set_variable_type" /\ ~Failed(last.res)
  /\ last.args = <<0, 1>>
  /\ ncols(p) > 2
  /\ \E i \in 1..(ncols(p) - 1) : is_variable_binary(p, i).val

\* C16: variable_lower_bound(i, v) and variable_upper_bound(i, v) on a variable
\* i with a value v, 0 and None included, return nothing and write: col_bounds(i)
\* and the read without a value then give v on that side (None for a bound
\* removed) and col_bounds(i) gives on the other side what it gave before
C16_BoundWriteWrites ==
  (/\ last.op \in {"variable_lower_bound", "variable_upper_bound"}
   /\ last.args.value # PyFalse
   /\ ~Failed(last.args.before)) =>
     LET i == last.args.index
         v == IF last.args.value = PyNone THEN None ELSE Some(last.args.value.v)
         before == last.args.before.val
     IN  /\ last.res = Return(None)
         /\ IF last.op = "variable_lower_bound"
            THEN /\ col_bounds(p, i) = Return(<<v, before[2]>>)
                 /\ variable_lower_bound(p, i, PyFalse).res = Return(v)
            ELSE /\ col_bounds(p, i) = Return(<<before[1], v>>)
                 /\ variable_upper_bound(p, i, PyFalse).res = Return(v)

\* C16 happens: the lower bound of the second variable was removed after its
\* upper bound had been set to 0
C16_Witness ==
  /\ last.op = "variable_lower_bound" /\ last.args.index = 1
  /\ last.args.value = PyNone /\ last.args.before = Return(<<Some(3), Some(0)>>)
  /\ last.res = Return(None)
  /\ col_bounds(p, 1) = Return(<<None, Some(0)>>)
  /\ col_bounds(p, 0) = Return(<<Some(0), Some(3)>>)

\* C17: a name that, once 'timelimit' is read as 'TimeLimit' and 'logfile' in
\* any letter case as 'LogFile', is no key of parameters_type raises ValueError
\* with no native call made and no parameter changed; a name of the table goes
\* to the get or set entry point of the kind the table gives
C17_ParameterDispatch ==
  last.op = "solver_parameter" =>
     LET a == last.args
         n == IF a.name = "timelimit" THEN "TimeLimit"
              ELSE IF a.name \in {"logfile", "LogFile", "LOGFILE"} THEN "LogFile"
              ELSE a.name
         kind == parameters_type[n]
     IN  IF n \notin DOMAIN parameters_type
         THEN last.res.exc = "ValueError" /\ a.entry = "none" /\ p.env = a.before
         ELSE a.entry =
                CASE kind = "int"    -> IF a.value = None THEN "GRBgetintparam"
                                        ELSE "GRBsetintparam"
                  [] kind = "double" -> IF a.value = None THEN "GRBgetdblparam"
                                        ELSE "GRBsetdblparam"
                  [] OTHER           -> IF a.value = None THEN "GRBgetstrparam"
                                        ELSE "GRBsetstrparam"

\* C17 happens: 'TIMELIMIT' was refused after 'timelimit' had set the time
\* limit and 'LOGFILE' the log file
C17_Witness ==
  /\ last.op = "solver_parameter" /\ last.args.name = "TIMELIMIT"
  /\ last.res.exc = "ValueError"
  /\ p.env.TimeLimit = 10 /\ p.env.LogFile = "/dev/null"

\* C18: is_maximization() is what the constructor was given until set_sense is
\* called, after a set_sense(s) it is true exactly when s = 1, and no other
\* call changes it
C18_SenseFollowsSetSense ==
  /\ last.op = "init" => is_maximization(p) = last.args
  /\ [][IF last'.op = "set_sense"
        THEN is_maximization(p') = (last'.args = 1)
        ELSE is_maximization(p') = is_maximization(p)]_vars

\* C18 happens: the sense set to minimisation on an adapter built for
\* maximisation is still there after the objective was set and the model solved
C18_Witness ==
  /\ last.op = "solve" /\ ~Failed(last.res)
  /\ ~is_maximization(p)
  /\ hist.d = 7 /\ hist.remove_constraint > 0 /\ ncols(p) > 0

\* C19: an adapter torn down has had its model and its master environment
\* freed once each, also when its __init__ raised after the environment was
\* allocated; an adapter in use has neither freed; nothing is freed twice
C19_TeardownFreesOnce ==
  /\ \A who \in {"p", "q"} :
       LET a == native[who]
           frees == IF a.life = "gone" THEN 1 ELSE 0
       IN  a.life \in {"gone", "ready"} =>
             /\ a.model # NULL_HANDLE => native.objects.models[a.model].frees = frees
             /\ a.env_master # NULL_HANDLE =>
                   native.objects.envs[a.env_master].frees = frees
  /\ \A h \in 1..Len(native.objects.models) : native.objects.models[h].frees <= 1
  /\ \A h \in 1..Len(native.objects.envs) : native.objects.envs[h].frees <= 1

\* C19 happens: an adapter whose model allocation failed was torn down and its
\* environment freed, after an adapter and its copy were torn down
C19_Witness ==
  /\ last.op = "dealloc" /\ native.p.life = "gone" /\ native.q.life = "gone"
  /\ native.p.env_master # NULL_HANDLE /\ native.p.model = NULL_HANDLE
  /\ native.objects.envs[native.p.env_master].frees = 1
  /\ native.q.model # NULL_HANDLE

\* the objective coefficients an adapter reports, variable by variable
ObjectiveOf(a) ==
  [i \in 0..(MaxVars + MaxRows) |-> objective_coefficient(a, i, None).res]

\* C20: a set_objective(coeff, d) that raises leaves every objective coefficient
\* and the constant term at their values before the call, right after it and
\* once the model has next been processed by a solve; one that returns has set
\* every coefficient of the list and the constant term
C20_SetObjectiveAllOrNothing ==
  [][last'.op = "set_objective" =>
       IF Failed(last'.res)
       THEN /\ p'.obj_constant_term = p.obj_constant_term
            /\ ObjectiveOf(p') = ObjectiveOf(p)
            /\ \A o \in Optimal :
                 ObjectiveOf(solve(p', o).self) = ObjectiveOf(solve(p, o).self)
       ELSE /\ p'.obj_constant_term = last'.args.d
            /\ \A k \in 0..(Len(last'.args.coeff) - 1) :
                 objective_coefficient(p', k, None).res
                   = Return(Some(At(last'.args.coeff, k)))]_vars

\* what set_variable_type(i, t) is to leave alone: everything the adapter
\* reports but the kind of variable i
FrameOf(a, i) ==
  [ncols |-> ncols(a), nrows |-> nrows(a),
   col_bounds |-> [j \in 0..(MaxVars + MaxRows) |-> col_bounds(a, j)],
   col_name |-> [j \in 0..(MaxVars + MaxRows) |-> col_name(a, j)],
   objective |-> [j \in 0..(MaxVars + MaxRows) |-> objective_coefficient(a, j, None).res],
   vtype |-> [j \in (0..(MaxVars + MaxRows)) \ {i} |->
                <<is_variable_binary(a, j), is_variable_integer(a, j),
                  is_variable_continuous(a, j)>>],
   row_bounds |-> [j \in 0..MaxRows |-> row_bounds(a, j)],
   row |-> [j \in 0..MaxRows |-> row(a, j)],
   row_name |-> [j \in 0..MaxRows |-> row_name(a, j)]]

\* C21: set_variable_type(i, t) on a variable i of the model is accepted
\* whatever the bounds are, gives i the kind t selects (1 integer, 0 binary,
\* any other integer continuous) and changes nothing else: the bounds, the
\* objective coefficient and the name of i, every attribute of every other
\* variable and row, ncols() and nrows() are as before the call
C21_SetVariableTypeFrame ==
  [][(last'.op = "set_variable_type" /\ last'.args[1] < ncols(p)) =>
       LET i == last'.args[1]
           t == last'.args[2]
       IN  /\ ~Failed(last'.res)
           /\ is_variable_integer(p', i) = Return(t = 1)
           /\ is_variable_binary(p', i) = Return(t = 0)
           /\ is_variable_continuous(p', i) = Return(t \notin {0, 1})
           /\ FrameOf(p', i) = FrameOf(p, i)]_vars

\* the adapters that exist: constructed (also with a failed __init__) and not
\* yet torn down
Living == {who \in {"p", "q"} : native[who].life \in {"failed", "ready"}}

\* C22: every native model handle allocated, by a constructor or by the clone
\* call of copy, is the model of an adapter until it is released, is never
\* released twice, and has been released once all adapters are torn down
C22_ModelHandlesReleasedOnce ==
  \A h \in 1..Len(native.objects.models) :
    /\ native.objects.models[h].frees <= 1
    /\ native.objects.models[h].frees = 0 =>
          \E who \in Living : native[who].model = h
    /\ Living = {} => native.objects.models[h].frees = 1

\* C23: the model handle of an adapter, of a copy too, belongs to the master
\* environment that this adapter owns and releases, so that environment is
\* not released, by the teardown of another adapter, while the model is in use
C23_ModelInOwnEnvironment ==
  \A who \in {"p", "q"} :
    native[who].life = "ready" =>
      LET m == native.objects.models[native[who].model]
      IN  /\ m.env = native[who].env_master
          /\ m.frees = 0
          /\ native.objects.envs[m.env].frees = 0

\* C24: every temporary buffer allocated by add_variable, add_linear_constraint
\* or row has been freed exactly once when the operation ends, whether it
\* returns or raises
C24_BuffersFreedOnce ==
  last.op \in {"add_variable", "add_linear_constraint", "row"} =>
    \A b \in 1..Len(native.heap) : native.heap[b].frees = 1

============================================================================
